---- MODULE Spec2Model ----
(***************************************************************************)
(* Model of the SEO audit tool: the PageSpeed Insights client with its     *)
(* response normalisation (utils/api_client.py) and the Streamlit script   *)
(* that validates, analyses and exports a submission of URLs (main.py).    *)
(***************************************************************************)
EXTENDS Integers, Sequences, FiniteSets, TLC

(***************************************************************************)
(* JSON values.  Every value is a record tagged by its type, so that two   *)
(* values of different JSON types are comparable (and different).          *)
(* Scores are the whole numbers a score can take (0 and 1 are both scores  *)
(* the upstream API returns), lists and booleans are left out.             *)
(***************************************************************************)
Null == [t |-> "null"]

Num(n) == [t |-> "num", n |-> n]

Str(s) == [t |-> "str", s |-> s]

Obj(f) == [t |-> "obj", m |-> f]

EmptyMap == [k \in {} |-> Null]

IsNull(v) == v.t = "null"

IsObj(v) == v.t = "obj"

IsNum(v) == v.t = "num"

\* Python `key in d` for a dict d
Has(v, k) == k \in DOMAIN v.m

\* Python d.get(key, default) for a dict d
Get(v, k, default) == IF k \in DOMAIN v.m THEN v.m[k] ELSE default

(***************************************************************************)
(* Outcomes of a block of code: a returned value or a raised exception.    *)
(* An exception carries its Python type and whether its message contains   *)
(* the word "score" (the only thing the handlers read from the message).   *)
(***************************************************************************)
Exc(type, msg, score) == [exc |-> type, msg |-> msg, score |-> score]

Raise(msg) == [kind |-> "raise", msg |-> msg]

Ok(result, warnings) == [kind |-> "ok", result |-> result, warnings |-> warnings]

(***************************************************************************)
(* utils/api_client.py : _fetch_metrics, the body of the try block         *)
(***************************************************************************)
category_keys ==
    [our_key \in {"performance", "accessibility", "best-practices", "seo"} |->
        CASE our_key = "performance"    -> <<"performance">>
          [] our_key = "accessibility"  -> <<"accessibility">>
          [] our_key = "best-practices" -> <<"best-practices", "bestPractices">>
          [] our_key = "seo"            -> <<"seo">>]

\* our_key.replace('_', '-'): no fixed category name holds an underscore
kebab_key(our_key) == our_key

\* first word kept, every later word of our_key.split('-') capitalized, joined
camel_key(our_key) ==
    IF our_key = "best-practices" THEN "bestPractices" ELSE our_key

required_audits ==
    <<"first-contentful-paint", "interactive", "largest-contentful-paint",
      "cumulative-layout-shift", "total-blocking-time", "server-response-time",
      "interaction-to-next-paint">>

AuditKeys == {required_audits[n] : n \in 1..Len(required_audits)}

\* lines 64-74: the score recorded for an entry found under one of possible_keys
SafeScore(category_data) ==
    LET score == IF IsNull(category_data) THEN Null
                 ELSE IF IsObj(category_data) /\ Has(category_data, "score")
                      THEN category_data.m["score"]
                      ELSE Null
    IN  IF ~IsNull(score) THEN score ELSE Num(0)

\* lines 85-88 and 91-94: the score recorded for an entry found by the fallback
FallbackScore(category_data) ==
    LET score == IF IsObj(category_data) THEN Get(category_data, "score", Num(0))
                 ELSE Num(0)
    IN  IF ~IsNull(score) THEN score ELSE Num(0)

\* the first of possible_keys present in categories, 0 when none is
FirstFound(categories, possible_keys) ==
    IF \E j \in 1..Len(possible_keys) : Has(categories, possible_keys[j])
    THEN CHOOSE j \in 1..Len(possible_keys) :
            /\ Has(categories, possible_keys[j])
            /\ \A h \in 1..(j - 1) : ~Has(categories, possible_keys[h])
    ELSE 0

\* ProcessCategory looking a category up under its exact name only
ExactKeyOnly(categories, our_key) ==
    IF Has(categories, our_key)
    THEN [score |-> SafeScore(categories.m[our_key]), warned |-> FALSE]
    ELSE [score |-> Num(0), warned |-> TRUE]

\* lines 59-101, one iteration: the score recorded for our_key and whether the
\* missing-category warning is printed
ProcessCategory(categories, our_key) ==
    LET j == FirstFound(categories, category_keys[our_key])
    IN  IF j > 0
        THEN [score |-> SafeScore(categories.m[category_keys[our_key][j]]),
              warned |-> FALSE]
        ELSE IF Has(categories, kebab_key(our_key))
        THEN [score |-> FallbackScore(categories.m[kebab_key(our_key)]),
              warned |-> FALSE]
        ELSE IF Has(categories, camel_key(our_key))
        THEN [score |-> FallbackScore(categories.m[camel_key(our_key)]),
              warned |-> FALSE]
        ELSE [score |-> Num(0), warned |-> TRUE]

\* lines 116-126, one iteration, for an audits mapping whose entry audit_key is
\* a mapping or absent/null
ProcessAudit(audits, audit_key) ==
    IF Has(audits, audit_key) /\ ~IsNull(audits.m[audit_key])
    THEN LET audit_data == audits.m[audit_key]
         IN  [displayValue |-> Get(audit_data, "displayValue", Str("N/A")),
              score |-> IF ~IsNull(Get(audit_data, "score", Null))
                        THEN Get(audit_data, "score", Num(0))
                        ELSE Num(0)]
    ELSE [displayValue |-> Str("N/A"), score |-> Num(0)]

\* an entry of audits on which audit_data.get raises AttributeError
AuditRaises(audits, audit_key) ==
    /\ Has(audits, audit_key)
    /\ ~IsNull(audits.m[audit_key])
    /\ ~IsObj(audits.m[audit_key])

\* lines 148-161: the all-default result
DefaultResult ==
    Obj([lighthouse_result |->
        Obj([categories |-> Obj([c \in DOMAIN category_keys |-> Obj([score |-> Num(0)])]),
             audits |-> Obj([a \in AuditKeys |->
                            Obj([displayValue |-> Str("N/A"), score |-> Num(0)])])])])

\* lines 34-128: the try block from response.json() on, for the parsed body data.
\* Returns [ret |-> result, warnings |-> ...] or [exc |-> ..., bound |-> ...],
\* bound telling whether required_audits (line 105) was assigned before the raise.
\* A JSON string holds none of the key names looked up in it.
TryBody(data) ==
    IF ~IsObj(data) /\ data.t # "str"
    THEN [exc |-> Exc("TypeError", "argument is not iterable", FALSE), bound |-> FALSE]
    ELSE IF data.t = "str" \/ ~Has(data, "lighthouseResult")
    THEN [exc |-> Exc("Exception", "Invalid API response: No lighthouse results found", FALSE),
          bound |-> FALSE]
    ELSE IF ~IsObj(data.m["lighthouseResult"])
    THEN [exc |-> Exc("TypeError", "not subscriptable", FALSE), bound |-> FALSE]
    ELSE IF ~Has(data.m["lighthouseResult"], "categories")
    THEN [exc |-> Exc("KeyError", "'categories'", FALSE), bound |-> FALSE]
    ELSE LET lr == data.m["lighthouseResult"]
             categories == lr.m["categories"]
             audits == Get(lr, "audits", Obj(EmptyMap))
             \* `audit_key in audits` is False for every key of a JSON string
             audits_map == IF audits.t = "str" THEN Obj(EmptyMap) ELSE audits
         IN  IF categories.t = "str"
             THEN [exc |-> Exc("AttributeError", "object has no attribute 'keys'", FALSE),
                   bound |-> FALSE]
             ELSE IF ~IsObj(categories)
             THEN [exc |-> Exc("TypeError", "argument is not iterable", FALSE),
                   bound |-> FALSE]
             ELSE IF ~IsObj(audits_map)
             THEN [exc |-> Exc("TypeError", "argument is not iterable", FALSE),
                   bound |-> TRUE]
             ELSE IF \E a \in AuditKeys : AuditRaises(audits_map, a)
             THEN [exc |-> Exc("AttributeError", "object has no attribute 'get'", FALSE),
                   bound |-> TRUE]
             ELSE [ret |-> Obj([lighthouse_result |->
                      Obj([categories |->
                              Obj([c \in DOMAIN category_keys |->
                                     Obj([score |-> ProcessCategory(categories, c).score])]),
                           audits |->
                              Obj([a \in AuditKeys |-> Obj(ProcessAudit(audits_map, a))])])]),
                   warnings |-> {c \in DOMAIN category_keys :
                                   ProcessCategory(categories, c).warned}]

(***************************************************************************)
(* utils/api_client.py : _fetch_metrics, the request and the except clauses *)
(***************************************************************************)
\* the upstream's answer to one request: status 0 stands for a request that
\* raised before any response was received (response stays None)
NoResponse == [status |-> 0, body |-> Null]

Reply(status, body) == [status |-> status, body |-> body]

\* bool(response): None is falsy, and requests.Response.__bool__ is Response.ok,
\* which is False for the statuses raise_for_status() raises on (400..599)
Truthy(response) == response.status # 0 /\ response.status < 400

\* response.raise_for_status()
RaisesForStatus(response) == response.status >= 400 /\ response.status < 600

\* line 133: response.json().get('error', {}).get('message', '')
ErrorDetail(response) ==
    Get(Get(response.body, "error", Obj(EmptyMap)), "message", Str(""))

KeyNotValid == Str("API key not valid. Please pass a valid API key.")

\* lines 130-163: the except clauses, for the exception e raised in the try block
\* with `response` as assigned so far; bound tells whether required_audits is
\* assigned (reading it unassigned raises UnboundLocalError out of the handler)
ExceptClauses(e, response, bound) ==
    IF e.exc = "RequestException"
    THEN IF Truthy(response) /\ response.status = 400
         THEN IF ErrorDetail(response) = KeyNotValid
              THEN Raise("Invalid API key")
              ELSE Raise("Bad request")
         ELSE IF Truthy(response) /\ response.status = 403
         THEN Raise("API key error: Access forbidden")
         ELSE Raise("Failed to fetch metrics")
    ELSE IF e.exc = "KeyError"
    THEN Raise("Invalid API response format")
    ELSE IF e.score
         THEN IF bound THEN Ok(DefaultResult, {})
              ELSE Raise("UnboundLocalError: required_audits")
         ELSE IF e.msg = "Invalid API response: No lighthouse results found"
              THEN Raise("An error occurred: Invalid API response")
              ELSE Raise("An error occurred")

\* lines 19-163: _fetch_metrics for the answer `reply` of the upstream
fetch_metrics(reply) ==
    IF reply.status = 0
    THEN ExceptClauses(Exc("RequestException", "ConnectionError", FALSE), NoResponse, FALSE)
    ELSE IF RaisesForStatus(reply)
    THEN ExceptClauses(Exc("RequestException", "HTTPError", FALSE), reply, FALSE)
    ELSE LET b == TryBody(reply.body)
         IN  IF "ret" \in DOMAIN b
             THEN Ok(b.ret, b.warnings)
             ELSE ExceptClauses(b.exc, reply, b.bound)

(***************************************************************************)
(* Raw responses the normaliser is exercised on                            *)
(***************************************************************************)
ScoreField(v) == Obj([k \in {"score"} |-> v])

\* a strategy result with the given categories mapping
ResultWith(cats) ==
    Obj([lighthouse_result |-> Obj([categories |-> cats, audits |-> Obj(EmptyMap)])])

AllCats(v) == Obj([c \in DOMAIN category_keys |-> ScoreField(v)])

CatEntries ==
    {Null, Str("n/a"), Obj(EmptyMap), ScoreField(Null), ScoreField(Num(0)),
     ScoreField(Num(1)), ScoreField(Str("high"))}

VariedCatKeys == {"performance", "best-practices", "bestPractices"}

PlainCatKeys == {"accessibility", "seo"}

RawCategories ==
    {Obj(f @@ g) :
        f \in UNION {[S -> CatEntries] : S \in SUBSET VariedCatKeys},
        g \in UNION {[S -> {ScoreField(Num(1))}] : S \in SUBSET PlainCatKeys}}

AuditEntries ==
    {Null, Str("n/a"), Obj(EmptyMap),
     Obj([k \in {"displayValue", "score"} |->
            IF k = "displayValue" THEN Str("1.2 s") ELSE Num(1)]),
     Obj([k \in {"displayValue", "score"} |-> Null]),
     Obj([k \in {"score"} |-> Num(0)])}

RawAudits ==
    {Null, Str("n/a")} \cup
    {Obj([a \in S |-> e]) :
        S \in {{}, {"first-contentful-paint"}, AuditKeys}, e \in AuditEntries}

\* the lighthouseResult objects: categories always a mapping, audits optional
RawLighthouse ==
    {Obj([k \in {"categories"} |-> c]) : c \in RawCategories} \cup
    {Obj([k \in {"categories", "audits"} |-> IF k = "categories" THEN c ELSE a]) :
        c \in RawCategories, a \in RawAudits}

\* bodies that lack the result object or whose categories is no mapping
MalformedBodies ==
    {Null, Str("<html>"), Obj(EmptyMap),
     Obj([k \in {"lighthouseResult"} |-> Null]),
     Obj([k \in {"lighthouseResult"} |-> Obj(EmptyMap)]),
     Obj([k \in {"lighthouseResult"} |-> Obj([j \in {"categories"} |-> Null])]),
     Obj([k \in {"lighthouseResult"} |-> Obj([j \in {"categories"} |-> Str("n/a")])])}

RawBodies ==
    {Obj([k \in {"lighthouseResult"} |-> lr]) : lr \in RawLighthouse}
    \cup MalformedBodies

(***************************************************************************)
(* main.py : export_results                                                *)
(***************************************************************************)
\* Python v[k] inside get_score's try: the value, or the KeyError / TypeError
\* that `except (KeyError, TypeError)` catches
Index(v, k) ==
    IF IsObj(v) /\ Has(v, k) THEN [ok |-> TRUE, val |-> v.m[k]]
    ELSE [ok |-> FALSE, val |-> Null]

\* lines 90-97: get_score
get_score(data, category) ==
    LET a == Index(data, "lighthouse_result")
        b == Index(a.val, "categories")
        c == Index(b.val, category)
        d == Index(c.val, "score")
    IN  IF ~(a.ok /\ b.ok /\ c.ok /\ d.ok) THEN Str("N/A")
        ELSE IF IsNull(d.val) THEN Str("N/A")
        ELSE IF ~IsNum(d.val) THEN Str("N/A")
        ELSE IF d.val.n > 0 THEN Num(d.val.n * 100) ELSE Num(0)

\* lines 99-109: the row of one result, for a result whose three keys can be read
Row(result) ==
    [URL |-> result.m["url"],
     DesktopPerformance |-> get_score(result.m["desktop"], "performance"),
     DesktopAccessibility |-> get_score(result.m["desktop"], "accessibility"),
     DesktopBestPractices |-> get_score(result.m["desktop"], "best-practices"),
     DesktopSEO |-> get_score(result.m["desktop"], "seo"),
     MobilePerformance |-> get_score(result.m["mobile"], "performance"),
     MobileAccessibility |-> get_score(result.m["mobile"], "accessibility"),
     MobileBestPractices |-> get_score(result.m["mobile"], "best-practices"),
     MobileSEO |-> get_score(result.m["mobile"], "seo")]

\* result['url'], result['desktop'] and result['mobile'] are read outside any try
RowRaises(result) ==
    \/ ~IsObj(result)
    \/ ~Has(result, "url")
    \/ ~Has(result, "desktop")
    \/ ~Has(result, "mobile")

\* lines 82-120: export_results; csv and excel carry the same rows
export_results(results, format) ==
    IF format = "json"
    THEN [kind |-> "ok", format |-> "json", doc |-> results]
    ELSE IF \E n \in 1..Len(results) : RowRaises(results[n])
    THEN LET first == CHOOSE j \in 1..Len(results) :
                    RowRaises(results[j]) /\ \A h \in 1..(j - 1) : ~RowRaises(results[h])
         IN  Raise(IF IsObj(results[first]) THEN "KeyError" ELSE "TypeError")
    ELSE [kind |-> "ok", format |-> format,
          rows |-> [n \in 1..Len(results) |-> Row(results[n])]]

Formats == {"json", "csv", "excel"}

(***************************************************************************)
(* main.py : validate_url                                                  *)
(* A URL is held by the parts the pattern reads: scheme, host labels (each *)
(* with its length and character class), port and the rest after the host. *)
(***************************************************************************)
Label(text, len, class) == [text |-> text, len |-> len, class |-> class]

Url(scheme, host, port, rest) ==
    [scheme |-> scheme, host |-> host, port |-> port, rest |-> rest]

\* [A-Z0-9](?:[A-Z0-9-]{0,61}[A-Z0-9])?
NameLabel(l) == l.class \in {"alpha", "digit", "alnum"} /\ l.len >= 1 /\ l.len <= 63

\* [A-Z]{2,6}
Tld(l) == l.class = "alpha" /\ l.len >= 2 /\ l.len <= 6

\* \d{1,3}
Octet(l) == l.class = "digit" /\ l.len >= 1 /\ l.len <= 3

HostMatches(h) ==
    \/ /\ Len(h) >= 2
       /\ \A j \in 1..(Len(h) - 1) : NameLabel(h[j])
       /\ Tld(h[Len(h)])
    \/ Len(h) = 1 /\ h[1].text = "localhost"
    \/ Len(h) = 4 /\ \A j \in 1..4 : Octet(h[j])

\* lines 61-71: validate_url
validate_url(url) ==
    /\ url.scheme \in {"http", "https"}
    /\ HostMatches(url.host)
    /\ url.port \in {"none", "digits"}
    /\ url.rest \in {"empty", "slash", "path"}

ExampleCom ==
    Url("https", <<Label("example", 7, "alpha"), Label("com", 3, "alpha")>>, "none", "empty")

PrivateIp ==
    Url("http", <<Label("192", 3, "digit"), Label("168", 3, "digit"),
                  Label("1", 1, "digit"), Label("1", 1, "digit")>>, "digits", "path")

FtpUrl == Url("ftp", <<Label("x", 1, "alpha"), Label("com", 3, "alpha")>>, "none", "empty")

UrlSet == {ExampleCom, PrivateIp, FtpUrl}

\* a list of URLs that checks only its first element
FirstInvalidOnly(us) == {j \in {1} : ~validate_url(us[j])}

\* line 167: invalid_urls (as the positions of the URLs rejected)
invalid_urls(us) == {j \in 1..Len(us) : ~validate_url(us[j])}

(***************************************************************************)
(* The cache of st.cache_data(ttl=3600) around _fetch_metrics              *)
(***************************************************************************)
TTL == 3600

CacheKey(key, url, strategy) == <<key, url, strategy>>

\* an entry that is only alive at the instant it was written
HitSameInstant(c, k, t) == k \in DOMAIN c /\ t = c[k].stored

\* an entry written at `stored` is served until stored + ttl
CacheHit(c, k, t) == k \in DOMAIN c /\ t < c[k].stored + TTL

(***************************************************************************)
(* The upstream's answers while the script analyses a submission           *)
(***************************************************************************)
GoodBody ==
    Obj([lighthouseResult |->
        Obj([categories |-> AllCats(Num(1)),
             audits |-> Obj([a \in AuditKeys |->
                            Obj([displayValue |-> Str("1.2 s"), score |-> Num(1)])])])])

KeyErrorBody == Obj([error |-> Obj([message |-> KeyNotValid])])

Replies ==
    {NoResponse, Reply(200, GoodBody), Reply(200, Obj(EmptyMap)),
     Reply(400, KeyErrorBody), Reply(403, Obj(EmptyMap))}

\* the upstream rejected the credential
CredentialRejected(reply) ==
    \/ reply.status = 403
    \/ reply.status = 400 /\ ErrorDetail(reply) = KeyNotValid

ApiKeys == {"key-1"}

MaxUrls == 2

MaxTicks == 1

VARIABLES fn_in, fn_out,
          now, ticks, cache,
          pc, api_key, urls, i, desktop_results, all_results,
          client, export_data, message,
          requests, analysed, lastCall, fetched, prior, credFailAt

fnvars == <<fn_in, fn_out>>

mainvars == <<now, ticks, cache, pc, api_key, urls, i, desktop_results,
              all_results, client, export_data, message,
              requests, analysed, lastCall, fetched, prior, credFailAt>>

vars == <<fnvars, mainvars>>

NotRun == [kind |-> "notrun"]

NoCall == [key |-> <<>>]

NoExport == [kind |-> "none"]

\* the script has not run
InitMain ==
    /\ now = 0
    /\ ticks = 0
    /\ cache = <<>>
    /\ pc = "ready"
    /\ api_key = ""
    /\ urls = <<>>
    /\ i = 0
    /\ desktop_results = Null
    /\ all_results = <<>>
    /\ client = FALSE
    /\ export_data = NoExport
    /\ message = "none"
    /\ requests = <<>>
    /\ analysed = <<>>
    /\ lastCall = NoCall
    /\ fetched = <<>>
    /\ prior = <<>>
    /\ credFailAt = 0

(***************************************************************************)
(* utils/api_client.py : get_metrics, _fetch_metrics behind its cache      *)
(***************************************************************************)
Put(f, k, v) == [x \in DOMAIN f \cup {k} |-> IF x = k THEN v ELSE f[x]]

\* lines 165-169 with the decorator of lines 17-18: a live entry is returned
\* without running the function; otherwise the function runs on the upstream's
\* reply, and what it returns (never what it raises) is stored
get_metrics(c, k, t, reply) ==
    IF CacheHit(c, k, t)
    THEN [out |-> Ok(c[k].value, {}), requested |-> FALSE, cache |-> c]
    ELSE LET out == fetch_metrics(reply)
         IN  [out |-> out, requested |-> TRUE,
              cache |-> IF out.kind = "ok"
                        THEN Put(c, k, [value |-> out.result, stored |-> t])
                        ELSE c]

\* what a call of get_metrics leaves in the history variables
Called(k, r, reply) ==
    /\ lastCall' = [key |-> k, t |-> now, requested |-> r.requested,
                    reply |-> IF r.requested THEN reply ELSE NoResponse,
                    out |-> r.out,
                    priorT |-> IF k \in DOMAIN prior THEN prior[k] ELSE -1,
                    fetchT |-> IF k \in DOMAIN fetched THEN fetched[k].t ELSE -1,
                    fetchRes |-> IF k \in DOMAIN fetched THEN fetched[k].result ELSE Null]
    /\ prior' = Put(prior, k, now)
    /\ fetched' = IF r.requested /\ r.out.kind = "ok"
                  THEN Put(fetched, k, [t |-> now, result |-> r.out.result])
                  ELSE fetched
    /\ cache' = r.cache

(***************************************************************************)
(* main.py : main, the run of the script on one submission                 *)
(***************************************************************************)
Submissions == UNION {[1..n -> UrlSet] : n \in 1..MaxUrls}

\* lines 123-178: the run up to the loop over the URLs
Submit(key, us) ==
    /\ pc = "ready"
    /\ api_key' = key
    /\ all_results' = <<>>
    /\ export_data' = NoExport
    /\ desktop_results' = Null
    /\ requests' = <<>>
    /\ analysed' = <<>>
    /\ credFailAt' = 0
    /\ IF key = ""
       THEN /\ urls' = <<>>
            /\ message' = "Please enter your PageSpeed Insights API key"
            /\ client' = FALSE
            /\ i' = 0
            /\ pc' = "rejected"
       ELSE IF invalid_urls(us) # {}
       THEN /\ urls' = us
            /\ message' = "Invalid URLs found"
            /\ client' = FALSE
            /\ i' = 0
            /\ pc' = "rejected"
       ELSE /\ urls' = us
            /\ message' = "none"
            /\ client' = TRUE
            /\ i' = 1
            /\ pc' = "desktop"
    /\ UNCHANGED <<now, ticks, cache, lastCall, fetched, prior, fnvars>>

\* the exception of analyze_url is reported and ends the loop
UrlFailedEndsLoop(r, reply, strategy) ==
    /\ message' = r.out.msg
    /\ analysed' = Append(analysed,
                     [desktop |-> IF strategy = "desktop" THEN "raise" ELSE "ok",
                      mobile |-> IF strategy = "desktop" THEN "skipped" ELSE "raise"])
    /\ credFailAt' = IF credFailAt = 0 /\ r.requested /\ CredentialRejected(reply)
                     THEN i ELSE credFailAt
    /\ i' = i + 1
    /\ pc' = "export"

\* lines 186-188: the exception of analyze_url is reported and the loop goes on
UrlFailed(r, reply, strategy) ==
    /\ message' = r.out.msg
    /\ analysed' = Append(analysed,
                     [desktop |-> IF strategy = "desktop" THEN "raise" ELSE "ok",
                      mobile |-> IF strategy = "desktop" THEN "skipped" ELSE "raise"])
    /\ credFailAt' = IF credFailAt = 0 /\ r.requested /\ CredentialRejected(reply)
                     THEN i ELSE credFailAt
    /\ i' = i + 1
    /\ pc' = IF i = Len(urls) THEN "export" ELSE "desktop"

\* lines 179-182 and 76: analyze_url's desktop call for urls[i]
AnalyzeDesktop(reply) ==
    /\ pc = "desktop"
    /\ LET k == CacheKey(api_key, urls[i], "desktop")
           r == get_metrics(cache, k, now, reply)
       IN  /\ Called(k, r, reply)
           /\ requests' = IF r.requested
                          THEN Append(requests, [idx |-> i, strategy |-> "desktop"])
                          ELSE requests
           /\ IF r.out.kind = "ok"
              THEN /\ desktop_results' = r.out.result
                   /\ pc' = "mobile"
                   /\ UNCHANGED <<message, analysed, credFailAt, i, all_results>>
              ELSE /\ UrlFailed(r, reply, "desktop")
                   /\ UNCHANGED <<desktop_results, all_results>>
    /\ UNCHANGED <<now, ticks, api_key, urls, client, export_data, fnvars>>

\* lines 77-79 and 183-188: analyze_url's mobile call, the record and its append
AnalyzeMobile(reply) ==
    /\ pc = "mobile"
    /\ LET k == CacheKey(api_key, urls[i], "mobile")
           r == get_metrics(cache, k, now, reply)
       IN  /\ Called(k, r, reply)
           /\ requests' = IF r.requested
                          THEN Append(requests, [idx |-> i, strategy |-> "mobile"])
                          ELSE requests
           /\ IF r.out.kind = "ok"
              THEN /\ all_results' =
                        Append(all_results,
                               Obj([url |-> Str(urls[i]), desktop |-> desktop_results,
                                    mobile |-> r.out.result]))
                   /\ analysed' = Append(analysed, [desktop |-> "ok", mobile |-> "ok"])
                   /\ i' = i + 1
                   /\ pc' = IF i = Len(urls) THEN "export" ELSE "desktop"
                   /\ UNCHANGED <<message, credFailAt>>
              ELSE /\ UrlFailed(r, reply, "mobile")
                   /\ UNCHANGED all_results
    /\ UNCHANGED <<now, ticks, api_key, urls, client, export_data,
                   desktop_results, fnvars>>

\* lines 190-233: the export of a non-empty batch in the format selected
Export(format) ==
    /\ pc = "export"
    /\ IF all_results # <<>>
       THEN LET e == export_results(all_results, format)
            IN  /\ export_data' = e
                /\ message' = IF e.kind = "ok" THEN "Analysis completed"
                              ELSE "An unexpected error occurred"
       ELSE UNCHANGED <<export_data, message>>
    /\ pc' = "done"
    /\ UNCHANGED <<now, ticks, cache, api_key, urls, i, desktop_results,
                   all_results, client, requests, analysed, lastCall, fetched,
                   prior, credFailAt, fnvars>>

\* time passes while the URLs are analysed, by half the cache window or by the
\* whole of it
Tick(d) ==
    /\ pc \in {"desktop", "mobile"}
    /\ ticks < MaxTicks
    /\ ticks' = ticks + 1
    /\ now' = now + d
    /\ UNCHANGED <<cache, pc, api_key, urls, i, desktop_results, all_results,
                   client, export_data, message, requests, analysed, lastCall,
                   fetched, prior, credFailAt, fnvars>>

Init ==
    /\ InitMain
    /\ fn_in = NotRun
    /\ fn_out = NotRun

Next ==
    \/ \E key \in ApiKeys \cup {""}, us \in Submissions : Submit(key, us)
    \/ \E reply \in Replies : AnalyzeDesktop(reply)
    \/ \E reply \in Replies : AnalyzeMobile(reply)
    \/ \E format \in Formats : Export(format)
    \/ \E d \in {TTL \div 2, TTL} : Tick(d)

Spec == Init /\ [][Next]_vars

(***************************************************************************)
(* SpecNorm: _fetch_metrics applied to every 200 answer with a raw body    *)
(***************************************************************************)
InitNorm ==
    /\ fn_in \in {Reply(200, b) : b \in RawBodies}
    /\ fn_out = NotRun
    /\ InitMain

ApplyFetch ==
    /\ fn_out = NotRun
    /\ fn_out' = fetch_metrics(fn_in)
    /\ UNCHANGED fn_in
    /\ UNCHANGED mainvars

SpecNorm == InitNorm /\ [][ApplyFetch]_vars

(***************************************************************************)
(* SpecExport: export_results applied to batches of arbitrary records      *)
(***************************************************************************)
MaxBatch == 2

StrategyValues ==
    {Null, Obj(EmptyMap), Obj([lighthouse_result |-> Obj(EmptyMap)]),
     ResultWith(Obj(EmptyMap)),
     ResultWith(Obj([c \in {"performance"} |-> Null])),
     ResultWith(AllCats(Null)), ResultWith(AllCats(Str("high"))),
     ResultWith(AllCats(Num(0))), ResultWith(AllCats(Num(1))),
     DefaultResult}

ExportRecords ==
    {Null} \cup
    {Obj(u @@ d @@ mo) :
        u \in {EmptyMap, [k \in {"url"} |-> Str("https://example.com")]},
        d \in {EmptyMap} \cup {[k \in {"desktop"} |-> v] : v \in StrategyValues},
        mo \in {EmptyMap, [k \in {"mobile"} |-> DefaultResult]}}

InitExport ==
    /\ fn_in \in {[results |-> r, format |-> f] :
                    r \in UNION {[1..n -> ExportRecords] : n \in 1..MaxBatch},
                    f \in Formats}
    /\ fn_out = NotRun
    /\ InitMain

ApplyExport ==
    /\ fn_out = NotRun
    /\ fn_out' = export_results(fn_in.results, fn_in.format)
    /\ UNCHANGED fn_in
    /\ UNCHANGED mainvars

SpecExport == InitExport /\ [][ApplyExport]_vars

(***************************************************************************)
(* SpecExcept: the except clauses of _fetch_metrics applied to an exception *)
(* raised while the categories (steps 1-2, required_audits not yet          *)
(* assigned) or the audits (step 3) of a 200 answer are processed           *)
(***************************************************************************)
ExcTypes == {"KeyError", "TypeError", "AttributeError", "ValueError", "Exception"}

Stages == {"categories", "audits"}

SampleBodies ==
    {Obj([k \in {"lighthouseResult"} |-> Obj([j \in {"categories"} |-> Obj(f)])]) :
        f \in [{"performance"} -> CatEntries]}

InitExcept ==
    /\ fn_in \in {[e |-> Exc(ty, IF sc THEN "bad score" ELSE "bad value", sc),
                   stage |-> st, response |-> Reply(200, b)] :
                    ty \in ExcTypes, sc \in BOOLEAN, st \in Stages, b \in SampleBodies}
    /\ fn_out = NotRun
    /\ InitMain

ApplyExcept ==
    /\ fn_out = NotRun
    /\ fn_out' = ExceptClauses(fn_in.e, fn_in.response, fn_in.stage = "audits")
    /\ UNCHANGED fn_in
    /\ UNCHANGED mainvars

SpecExcept == InitExcept /\ [][ApplyExcept]_vars

(***************************************************************************)
(* Claims about the normaliser, checked under SpecNorm                     *)
(***************************************************************************)
Applied == fn_out # NotRun

\* the raw response holds the result object with a categories mapping
HasCategoriesMapping(reply) ==
    /\ reply.status = 200
    /\ IsObj(reply.body)
    /\ Has(reply.body, "lighthouseResult")
    /\ IsObj(reply.body.m["lighthouseResult"])
    /\ Has(reply.body.m["lighthouseResult"], "categories")
    /\ IsObj(reply.body.m["lighthouseResult"].m["categories"])

RawCats(reply) == reply.body.m["lighthouseResult"].m["categories"]

HasAuditsObject(reply) == Has(reply.body.m["lighthouseResult"], "audits")

\* the key variants of a category name: the name itself, its kebab-case and
\* its camelCase form, in that order
KeyVariants(c) == IF c = "best-practices" THEN <<c, c, "bestPractices">> ELSE <<c, c, c>>

FoundUnderSomeVariant(cats, c) == \E j \in 1..3 : Has(cats, KeyVariants(c)[j])

FoundEntry(cats, c) ==
    cats.m[KeyVariants(c)[CHOOSE j \in 1..3 :
                /\ Has(cats, KeyVariants(c)[j])
                /\ \A h \in 1..(j - 1) : ~Has(cats, KeyVariants(c)[h])]]

\* the score field of a raw entry, null when the entry carries none
EntryScore(e) == IF IsObj(e) /\ Has(e, "score") THEN e.m["score"] ELSE Null

\* the parts of a normalised result
CategoriesOf(result) == result.m["lighthouse_result"].m["categories"].m

AuditsOf(result) == result.m["lighthouse_result"].m["audits"].m

CatScore(result, c) == CategoriesOf(result)[c].m["score"]

\* C3 (as claimed): for every raw response that holds the result object with a
\* categories mapping, the call succeeds and the result has the four category
\* scores and the seven audits' displayValue and score, none of them null.
C3_FullKeySetNeverNull ==
    (Applied /\ HasCategoriesMapping(fn_in)) =>
        /\ fn_out.kind = "ok"
        /\ DOMAIN CategoriesOf(fn_out.result) = DOMAIN category_keys
        /\ \A c \in DOMAIN category_keys :
              /\ Has(CategoriesOf(fn_out.result)[c], "score")
              /\ ~IsNull(CatScore(fn_out.result, c))
        /\ DOMAIN AuditsOf(fn_out.result) = AuditKeys
        /\ \A a \in AuditKeys :
              /\ DOMAIN AuditsOf(fn_out.result)[a].m = {"displayValue", "score"}
              /\ ~IsNull(AuditsOf(fn_out.result)[a].m["displayValue"])
              /\ ~IsNull(AuditsOf(fn_out.result)[a].m["score"])

\* C4 (as claimed): when the raw categories have no 'best-practices' key but a
\* 'bestPractices' key, the normalised best-practices score equals the score of
\* the 'bestPractices' entry and no warning names best-practices; a warning is
\* printed only for a category found under none of its key variants.
C4_BestPracticesScoreIsEntryScore ==
    (Applied /\ HasCategoriesMapping(fn_in) /\ fn_out.kind = "ok") =>
        /\ (~Has(RawCats(fn_in), "best-practices") /\ Has(RawCats(fn_in), "bestPractices")) =>
              /\ CatScore(fn_out.result, "best-practices")
                    = EntryScore(RawCats(fn_in).m["bestPractices"])
              /\ "best-practices" \notin fn_out.warnings
        /\ \A c \in fn_out.warnings : ~FoundUnderSomeVariant(RawCats(fn_in), c)

\* C4 (amended): as above, the normalised best-practices score being the score
\* of the 'bestPractices' entry when that entry carries a non-null score, and 0
\* when it carries none (null entry, not a mapping, no score, null score).
C4_BestPracticesScoreOrZero ==
    (Applied /\ HasCategoriesMapping(fn_in) /\ fn_out.kind = "ok") =>
        /\ (~Has(RawCats(fn_in), "best-practices") /\ Has(RawCats(fn_in), "bestPractices")) =>
              /\ CatScore(fn_out.result, "best-practices")
                    = IF IsNull(EntryScore(RawCats(fn_in).m["bestPractices"]))
                      THEN Num(0)
                      ELSE EntryScore(RawCats(fn_in).m["bestPractices"])
              /\ "best-practices" \notin fn_out.warnings
        /\ \A c \in fn_out.warnings : ~FoundUnderSomeVariant(RawCats(fn_in), c)

\* C4 witness: a response with only the camelCase key, scored 1, was normalised
\* while another category was missing and warned about
C4_Witness ==
    /\ Applied
    /\ HasCategoriesMapping(fn_in)
    /\ fn_out.kind = "ok"
    /\ ~Has(RawCats(fn_in), "best-practices")
    /\ Has(RawCats(fn_in), "bestPractices")
    /\ EntryScore(RawCats(fn_in).m["bestPractices"]) = Num(1)
    /\ CatScore(fn_out.result, "best-practices") = Num(1)
    /\ fn_out.warnings = {"performance"}

\* C8 (as claimed): for a category found under some key variant, in a response
\* without audits, the call does not fail and records 0 when the found entry is
\* null, no mapping, without score, or has a null or non-numeric score, and the
\* raw score otherwise.
C8_ScoreZeroUnlessNumeric ==
    (Applied /\ HasCategoriesMapping(fn_in) /\ ~HasAuditsObject(fn_in)) =>
        /\ fn_out.kind = "ok"
        /\ \A c \in DOMAIN category_keys :
              FoundUnderSomeVariant(RawCats(fn_in), c) =>
                 CatScore(fn_out.result, c)
                    = IF IsNum(EntryScore(FoundEntry(RawCats(fn_in), c)))
                      THEN EntryScore(FoundEntry(RawCats(fn_in), c))
                      ELSE Num(0)

(***************************************************************************)
(* Claims about export_results, checked under SpecExport                   *)
(***************************************************************************)
\* C7 (as claimed): export_results with format csv or excel never raises,
\* whatever the shape of the records: it produces one row per record.
C7_ExportNeverRaises ==
    (/\ Applied
     /\ "format" \in DOMAIN fn_in
     /\ fn_in.format \in {"csv", "excel"}
     /\ \A n \in 1..Len(fn_in.results) : IsObj(fn_in.results[n])) =>
        /\ fn_out.kind = "ok"
        /\ Len(fn_out.rows) = Len(fn_in.results)

HasCalled == lastCall # NoCall

\* C1 (as claimed): whenever the upstream answers a request of get_metrics with
\* status 403, get_metrics fails with the 'Access forbidden' error.
C1_ForbiddenIsPermissionError ==
    (HasCalled /\ lastCall.requested /\ lastCall.reply.status = 403) =>
        lastCall.out = Raise("API key error: Access forbidden")

\* C2 (as claimed): a call of get_metrics made less than TTL after a call with
\* the same (credential, url, strategy) issues no request and returns a
\* memoized result.
C2_SecondCallIssuesNoRequest ==
    (HasCalled /\ lastCall.priorT >= 0 /\ lastCall.t - lastCall.priorT < TTL) =>
        /\ ~lastCall.requested
        /\ lastCall.out.kind = "ok"

\* C2 (amended): a call of get_metrics made less than TTL after a call with the
\* same (credential, url, strategy) that issued its request and returned a
\* result issues no request and returns that result.
C2_CallAfterStoredResultIssuesNoRequest ==
    (HasCalled /\ lastCall.fetchT >= 0 /\ lastCall.t - lastCall.fetchT < TTL) =>
        /\ ~lastCall.requested
        /\ lastCall.out = Ok(lastCall.fetchRes, {})

\* C2 witness: a result fetched at time 0 is served again half a window later
C2_Witness ==
    /\ HasCalled
    /\ lastCall.fetchT = 0
    /\ lastCall.t = TTL \div 2
    /\ ~lastCall.requested
    /\ lastCall.out.kind = "ok"
    /\ Len(requests) = 2

\* C5 (as claimed): once the analysis of a URL has failed because the upstream
\* rejected the credential, no request is issued for a later URL of the
\* submission.
C5_CredentialFailureStopsBatch ==
    credFailAt > 0 =>
        \A n \in 1..Len(requests) : requests[n].idx <= credFailAt

RECURSIVE SucceededUrls(_)
\* the URLs, in submission order, whose desktop and mobile calls both returned
SucceededUrls(k) ==
    IF k = 0 THEN <<>>
    ELSE IF analysed[k].desktop = "ok" /\ analysed[k].mobile = "ok"
         THEN Append(SucceededUrls(k - 1), Str(urls[k]))
         ELSE SucceededUrls(k - 1)

\* C6: once the loop over the submission has ended, every URL was analysed, and
\* the batch holds one record per URL whose desktop and mobile analyses both
\* succeeded, in submission order, and none for the others.
C6_BatchIsSucceededUrlsInOrder ==
    pc \in {"export", "done"} =>
        /\ Len(analysed) = Len(urls)
        /\ [n \in 1..Len(all_results) |-> all_results[n].m["url"]]
              = SucceededUrls(Len(urls))
        /\ \A n \in 1..Len(all_results) :
              DOMAIN all_results[n].m = {"url", "desktop", "mobile"}

\* C6 witness: the first URL failed, the second, another URL, was analysed after
\* it and is the only record of the batch
C6_Witness ==
    /\ pc = "done"
    /\ Len(urls) = 2
    /\ urls[1] # urls[2]
    /\ analysed[1].desktop = "raise"
    /\ analysed[2].desktop = "ok" /\ analysed[2].mobile = "ok"
    /\ Len(all_results) = 1
    /\ all_results[1].m["url"] = Str(urls[2])

\* C10: when validate_url rejects a URL of the submission, no request has been
\* issued for any URL of it, no client is constructed and nothing is exported.
C10_NoRequestUnlessAllValid ==
    (\E n \in 1..Len(urls) : ~validate_url(urls[n])) =>
        /\ requests = <<>>
        /\ ~HasCalled
        /\ ~client
        /\ export_data = NoExport
        /\ pc = "rejected"

\* C10 witness: a submission of a valid URL followed by an invalid one was rejected
C10_Witness ==
    /\ pc = "rejected"
    /\ Len(urls) = 2
    /\ validate_url(urls[1])
    /\ ~validate_url(urls[2])
    /\ requests = <<>>

====
